---- MODULE Spec2Model ----
(***************************************************************************)
(* State-machine model of the OpenAI -> NVIDIA NIM proxy.                  *)
(*                                                                         *)
(*   server.js  (src/unnamed/part_000): Express deployment, with the       *)
(*              streaming reassembler and the non-streaming transcoder.    *)
(*   worker.js  (src/worker.js): Cloudflare Worker deployment.             *)
(*                                                                         *)
(* Text is a sequence of units.  A unit is a string standing for the       *)
(* characters it spells: one character ("[", " ", "\n") or a run of        *)
(* characters that the code never looks inside (the unit Pre spells        *)
(* {"choices":[{"delta":{ ).  The text a sequence stands for is the        *)
(* concatenation of its units.  Upstream bytes are units too: an ASCII     *)
(* unit is its own encoding, and the two-byte character U+00E9 is the      *)
(* byte units <<"0xC3", "0xA9">>.                                          *)
(***************************************************************************)
EXTENDS Integers, Sequences, FiniteSets, TLC

VARIABLES
    showReasoning,   \* SHOW_REASONING, fixed at start-up
    wire,            \* upstream bytes not yet delivered to the 'data' handler
    buffer,          \* let buffer (text after the last newline seen)
    reasoningStarted,\* let reasoningStarted
    out,             \* the res.write calls so far, in order (each a text)
    ended,           \* res.end() was called
    recv,            \* history: every byte delivered so far
    log,             \* history: one record per complete line handled
    last,            \* history: the latest 'data' call (its input and where out stood)
    deployment,      \* "server" (server.js) or "worker" (worker.js)
    body,            \* the inbound request body of POST /v1/chat/completions
    outcome,         \* what the handler did with it: the upstream request or an error
    upstream,        \* the choices of a complete (non-streaming) upstream response
    reply,           \* the choices of the response sent back for it
    credential,      \* NIM_API_KEY as configured: "set", "empty" or "unbound"
    clock,           \* Date.now(), in milliseconds
    reqs,            \* the POST requests in flight, each with its handler's position
    conns,           \* concurrent streaming connections, each with its own closure
    solo             \* reference: every connection replayed with no other one around

streamVars == <<wire, buffer, reasoningStarted, out, ended, recv, log, last>>
requestVars == <<body, outcome>>
replyVars == <<upstream, reply>>
serviceVars == <<credential, clock, reqs>>
connVars == <<conns, solo>>
vars == <<showReasoning, deployment, streamVars, requestVars, replyVars,
          serviceVars, connVars>>

----------------------------------------------------------------------------
(* Bounds *)

MaxLines == 2
MaxChoices == 2

----------------------------------------------------------------------------
(* Units *)

NL == "\n"
Pre == "{\"choices\":[{\"delta\":{"
Post == "}}]}"
KeyContent == "\"content\":\""
KeyReasoning == "\"reasoning_content\":\""
Quote == "\""
Comma == ","
NoChoices == "{\"choices\":[]}"
OpenMark == "<think>\n"
CloseMark == "</think>\n\n"
EAcute == "U+00E9"
Replacement == "U+FFFD"
LeadByte == "0xC3"
ContByte == "0xA9"

Structural == {Pre, Post, KeyContent, KeyReasoning, Quote, Comma, NoChoices}

DataPrefix == <<"data:", " ">>
DoneLiteral == <<"[", "DONE", "]">>

----------------------------------------------------------------------------
(* String primitives of the runtime, on unit sequences *)

\* String.prototype.startsWith
StartsWith(s, p) == Len(s) >= Len(p) /\ SubSeq(s, 1, Len(p)) = p

\* String.prototype.includes
Includes(s, p) ==
    \E i \in 1..(Len(s) - Len(p) + 1) : SubSeq(s, i, i + Len(p) - 1) = p

\* String.prototype.slice(n)
Slice(s, n) == SubSeq(s, n + 1, Len(s))

\* String.prototype.split('\n')
RECURSIVE Split(_)
Split(s) ==
    IF \A i \in 1..Len(s) : s[i] # NL
    THEN <<s>>
    ELSE LET i == CHOOSE i \in 1..Len(s) : s[i] = NL /\ \A j \in 1..(i - 1) : s[j] # NL
         IN  <<SubSeq(s, 1, i - 1)>> \o Split(SubSeq(s, i + 1, Len(s)))

\* Buffer.prototype.toString() (UTF-8): every chunk is decoded on its own, so
\* a lead byte with no continuation byte after it in the same chunk, and a
\* continuation byte with no lead byte before it, each decode to U+FFFD.
RECURSIVE Utf8Decode(_)
Utf8Decode(b) ==
    IF \A i \in 1..Len(b) : b[i] \notin {LeadByte, ContByte} THEN b
    ELSE IF b[1] = LeadByte /\ Len(b) >= 2 /\ b[2] = ContByte
         THEN <<EAcute>> \o Utf8Decode(SubSeq(b, 3, Len(b)))
    ELSE IF b[1] \in {LeadByte, ContByte}
         THEN <<Replacement>> \o Utf8Decode(Tail(b))
    ELSE <<b[1]>> \o Utf8Decode(Tail(b))

\* The upstream's UTF-8 encoding of a text
RECURSIVE Utf8Encode(_)
Utf8Encode(t) ==
    IF t = <<>> THEN <<>>
    ELSE IF t[1] = EAcute THEN <<LeadByte, ContByte>> \o Utf8Encode(Tail(t))
    ELSE <<t[1]>> \o Utf8Encode(Tail(t))

----------------------------------------------------------------------------
(* JSON.parse / JSON.stringify on the event shapes the upstream sends *)

Absent == [has |-> FALSE, v |-> <<>>]
Str(s) == [has |-> TRUE, v |-> s]

\* A JS value is truthy: a string field is truthy when present and non-empty
Truthy(f) == f.has /\ f.v # <<>>

IsChars(s) == \A i \in 1..Len(s) : s[i] \notin Structural

NoEvent == [delta |-> FALSE, content |-> Absent, reasoning |-> Absent]
Delta(c, r) == [delta |-> TRUE, content |-> c, reasoning |-> r]

ParseFail == [ok |-> FALSE, ev |-> NoEvent]
ParseOk(e) == [ok |-> TRUE, ev |-> e]

\* A string member "key":"chars" starting at the head of b: the index of its
\* closing quote, 0 when b does not start with one.
MemberEnd(b, key) ==
    IF Len(b) >= 2 /\ b[1] = key /\ \E q \in 2..Len(b) : b[q] = Quote
    THEN LET q == CHOOSE q \in 2..Len(b) : b[q] = Quote /\ \A j \in 2..(q - 1) : b[j] # Quote
         IN  IF IsChars(SubSeq(b, 2, q - 1)) THEN q ELSE 0
    ELSE 0

\* The members of a delta object: content first, reasoning_content second,
\* each optional.
ParseMembers(b) ==
    IF b = <<>> THEN ParseOk(Delta(Absent, Absent))
    ELSE LET qc == MemberEnd(b, KeyContent)
             qr == MemberEnd(b, KeyReasoning)
         IN  IF qr # 0 /\ qr = Len(b)
             THEN ParseOk(Delta(Absent, Str(SubSeq(b, 2, qr - 1))))
             ELSE IF qc # 0 /\ qc = Len(b)
             THEN ParseOk(Delta(Str(SubSeq(b, 2, qc - 1)), Absent))
             ELSE IF qc # 0 /\ Len(b) > qc + 1 /\ b[qc + 1] = Comma
             THEN LET rest == SubSeq(b, qc + 2, Len(b))
                      q2 == MemberEnd(rest, KeyReasoning)
                  IN  IF q2 # 0 /\ q2 = Len(rest)
                      THEN ParseOk(Delta(Str(SubSeq(b, 2, qc - 1)),
                                         Str(SubSeq(rest, 2, q2 - 1))))
                      ELSE ParseFail
             ELSE ParseFail

\* JSON.parse: ok = FALSE stands for the SyntaxError it throws
JsonParse(p) ==
    IF p = <<NoChoices>> THEN ParseOk(NoEvent)
    ELSE IF Len(p) >= 2 /\ p[1] = Pre /\ p[Len(p)] = Post
         THEN ParseMembers(SubSeq(p, 2, Len(p) - 1))
    ELSE ParseFail

Member(key, f) == IF f.has THEN <<key>> \o f.v \o <<Quote>> ELSE <<>>

\* JSON.stringify
JsonStringify(e) ==
    IF ~e.delta THEN <<NoChoices>>
    ELSE <<Pre>> \o Member(KeyContent, e.content)
                 \o (IF e.content.has /\ e.reasoning.has THEN <<Comma>> ELSE <<>>)
                 \o Member(KeyReasoning, e.reasoning)
                 \o <<Post>>

----------------------------------------------------------------------------
(* The reasoning merge of the streaming handler *)

\* Mutant: the opening marker is written for every reasoning delta
ReasoningBranchAlwaysOpens(reasoning, rs) ==
    IF Truthy(reasoning)
    THEN [combined |-> <<OpenMark>> \o reasoning.v, rs |-> TRUE]
    ELSE [combined |-> <<>>, rs |-> rs]

\* if (reasoning && !reasoningStarted) ... else if (reasoning) ...
ReasoningBranch(reasoning, rs) ==
    IF Truthy(reasoning) /\ ~rs
    THEN [combined |-> <<OpenMark>> \o reasoning.v, rs |-> TRUE]
    ELSE IF Truthy(reasoning)
    THEN [combined |-> reasoning.v, rs |-> rs]
    ELSE [combined |-> <<>>, rs |-> rs]

\* Mutant: the block is closed but reasoningStarted is not reset
ContentBranchStaysOpen(content, acc) ==
    IF Truthy(content) /\ acc.rs
    THEN [combined |-> acc.combined \o <<CloseMark>> \o content.v, rs |-> TRUE]
    ELSE IF Truthy(content)
    THEN [combined |-> acc.combined \o content.v, rs |-> acc.rs]
    ELSE acc

\* if (content && reasoningStarted) ... else if (content) ...
ContentBranch(content, acc) ==
    IF Truthy(content) /\ acc.rs
    THEN [combined |-> acc.combined \o <<CloseMark>> \o content.v, rs |-> FALSE]
    ELSE IF Truthy(content)
    THEN [combined |-> acc.combined \o content.v, rs |-> acc.rs]
    ELSE acc

\* The SHOW_REASONING branch: the event written and the state after it
MergeShow(e, rs) ==
    LET m == ContentBranch(e.content, ReasoningBranch(e.reasoning, rs))
    IN  [ev |-> IF m.combined # <<>> THEN Delta(Str(m.combined), Absent) ELSE e,
         rs |-> m.rs]

\* Mutant: reasoning_content is not deleted
MergeHideKeepsReasoning(e, rs) ==
    [ev |-> Delta(IF Truthy(e.content) THEN e.content ELSE Str(<<>>), e.reasoning),
     rs |-> rs]

\* The else branch: content passed on, reasoning_content deleted
MergeHide(e, rs) ==
    [ev |-> Delta(IF Truthy(e.content) THEN e.content ELSE Str(<<>>), Absent),
     rs |-> rs]

\* if (data.choices?.[0]?.delta) { ... }
TransformEvent(e, rs, show) ==
    IF ~e.delta THEN [ev |-> e, rs |-> rs]
    ELSE IF show THEN MergeShow(e, rs)
    ELSE MergeHide(e, rs)

----------------------------------------------------------------------------
(* The 'data' handler *)

LogEntry(line, kind, ev, rsBefore, rsAfter, wrote) ==
    [line |-> line, kind |-> kind, ev |-> ev,
     rsBefore |-> rsBefore, rsAfter |-> rsAfter, wrote |-> wrote]

\* Mutant: the catch block swallows the error and writes nothing
ProcessLineDropsMalformed(st, line, show) ==
    IF ~StartsWith(line, DataPrefix)
    THEN [st EXCEPT !.log = Append(@, LogEntry(line, "skip", NoEvent, st.rs, st.rs, <<>>))]
    ELSE IF Includes(line, DoneLiteral)
    THEN LET w == line \o <<NL>>
         IN  [st EXCEPT !.out = Append(@, w),
                !.log = Append(@, LogEntry(line, "done", NoEvent, st.rs, st.rs, w))]
    ELSE LET p == JsonParse(Slice(line, Len(DataPrefix)))
         IN  IF p.ok
             THEN LET t == TransformEvent(p.ev, st.rs, show)
                      w == DataPrefix \o JsonStringify(t.ev) \o <<NL, NL>>
                  IN  [st EXCEPT !.rs = t.rs, !.out = Append(@, w),
                          !.log = Append(@, LogEntry(line, "event", p.ev, st.rs, t.rs, w))]
             ELSE [st EXCEPT !.log = Append(@, LogEntry(line, "raw", NoEvent, st.rs, st.rs, <<>>))]

\* One pass of the lines.forEach callback.  st = [rs, out, log, ended]: the
\* callback's variables and what it has done to res.  The `return` after the
\* terminator leaves the callback only: forEach goes on to the next line.
ProcessLine(st, line, show) ==
    IF ~StartsWith(line, DataPrefix)
    THEN [st EXCEPT !.log = Append(@, LogEntry(line, "skip", NoEvent, st.rs, st.rs, <<>>))]
    ELSE IF Includes(line, DoneLiteral)
    THEN LET w == line \o <<NL>>
         IN  [st EXCEPT !.out = Append(@, w),
                !.log = Append(@, LogEntry(line, "done", NoEvent, st.rs, st.rs, w))]
    ELSE LET p == JsonParse(Slice(line, Len(DataPrefix)))
         IN  IF p.ok
             THEN LET t == TransformEvent(p.ev, st.rs, show)
                      w == DataPrefix \o JsonStringify(t.ev) \o <<NL, NL>>
                  IN  [st EXCEPT !.rs = t.rs, !.out = Append(@, w),
                          !.log = Append(@, LogEntry(line, "event", p.ev, st.rs, t.rs, w))]
             ELSE LET w == line \o <<NL>>
                  IN  [st EXCEPT !.out = Append(@, w),
                          !.log = Append(@, LogEntry(line, "raw", NoEvent, st.rs, st.rs, w))]

\* lines.forEach
RECURSIVE ProcessLines(_, _, _)
ProcessLines(st, lines, show) ==
    IF lines = <<>> THEN st
    ELSE ProcessLines(ProcessLine(st, Head(lines), show), Tail(lines), show)

\* What is kept for the next chunk: buffer = lines.pop() || ''
Remainder(lines) == lines[Len(lines)]

\* Mutant: lines.pop() is forgotten and the unfinished last line is handled too
CompleteWithoutPop(lines) == lines

\* What is handled now: the lines left after lines.pop()
Complete(lines) == SubSeq(lines, 1, Len(lines) - 1)

\* chunk.toString()
ChunkToString(chunk) == Utf8Decode(chunk)

\* response.data.on('data', chunk => ...) from st = [rs, out, log, ended, buffer]
HandleChunk(st, chunk, show) ==
    LET text == st.buffer \o ChunkToString(chunk)
        lines == Split(text)
        r == ProcessLines([rs |-> st.rs, out |-> st.out, log |-> st.log,
                           ended |-> st.ended], Complete(lines), show)
    IN  [rs |-> r.rs, out |-> r.out, log |-> r.log, ended |-> r.ended,
         buffer |-> Remainder(lines)]

----------------------------------------------------------------------------
(* The upstream: what it may send *)

A == <<"a">>
B == <<"b">>
C == <<"c">>

\* An event as the upstream frames it: the data line and the blank line after it
EventLine(e) == DataPrefix \o JsonStringify(e) \o <<NL, NL>>

ReasoningA == EventLine(Delta(Absent, Str(A)))
ReasoningB == EventLine(Delta(Absent, Str(B)))
ContentC == EventLine(Delta(Str(C), Absent))
BothLine == EventLine(Delta(Str(<<EAcute>>), Str(B)))
EmptyLine == EventLine(Delta(Str(<<>>), Str(<<>>)))
DoneInside == EventLine(Delta(Absent, Str(DoneLiteral)))
NoDeltaLine == EventLine(NoEvent)
DoneLine == DataPrefix \o DoneLiteral \o <<NL, NL>>
BadLine == DataPrefix \o <<Pre, KeyContent, "c", NL, NL>>

Menu ==
    { ReasoningA, ContentC, BothLine, EmptyLine, DoneInside,
      NoDeltaLine, DoneLine, BadLine }

RECURSIVE Flatten(_)
Flatten(ss) == IF ss = <<>> THEN <<>> ELSE Head(ss) \o Flatten(Tail(ss))

\* Every stream of at most MaxLines events, and the streams of the spec's
\* testable properties
Scenarios ==
    { <<ReasoningA, ReasoningB, ContentC>>,
      <<ReasoningA, ContentC, ReasoningB>>,
      <<ReasoningA, DoneLine, ContentC>> }

Scripts == Scenarios \cup UNION { [1..n -> Menu] : n \in 1..MaxLines }

Wires == { Utf8Encode(Flatten(s)) : s \in Scripts }

----------------------------------------------------------------------------
(* The streaming connection *)

NoCall == [input |-> <<>>, outBefore |-> 0]

\* The variables of the other paths while a streaming connection is modelled
NoBody == [model |-> Absent, temperature |-> [has |-> FALSE, v |-> 0],
           max_tokens |-> [has |-> FALSE, v |-> 0], stream |-> FALSE]
Pending == [status |-> "pending", code |-> 0, request |-> NoBody]
NoReply == [sent |-> FALSE, choices |-> <<>>]

StreamIdle ==
    /\ wire = <<>> /\ buffer = <<>> /\ reasoningStarted = FALSE /\ out = <<>>
    /\ ended = FALSE /\ recv = <<>> /\ log = <<>> /\ last = NoCall
RequestIdle == body = NoBody /\ outcome = Pending
ReplyIdle == upstream = <<>> /\ reply = NoReply
ServiceIdle == credential = "set" /\ clock = 0 /\ reqs = <<>>
ConnsIdle == conns = <<>> /\ solo = <<>>

\* A streaming connection of the server deployment (worker.js pipes the
\* upstream body through untouched)
Init ==
    /\ deployment = "server"
    /\ RequestIdle
    /\ ReplyIdle
    /\ ServiceIdle
    /\ ConnsIdle
    /\ showReasoning \in BOOLEAN
    /\ wire \in Wires
    /\ buffer = <<>>
    /\ reasoningStarted = FALSE
    /\ out = <<>>
    /\ ended = FALSE
    /\ recv = <<>>
    /\ log = <<>>
    /\ last = NoCall

\* response.data.on('data'): the next k upstream bytes arrive as one chunk
OnData(k) ==
    /\ ~ended
    /\ k \in 1..Len(wire)
    /\ LET chunk == SubSeq(wire, 1, k)
       IN \E r \in {HandleChunk([rs |-> reasoningStarted, out |-> out, log |-> log,
                             ended |-> ended, buffer |-> buffer], chunk, showReasoning)} :
           /\ buffer' = r.buffer
           /\ ended' = r.ended
           /\ reasoningStarted' = r.rs
           /\ out' = r.out
           /\ log' = r.log
           /\ recv' = recv \o chunk
           /\ last' = [input |-> buffer \o ChunkToString(chunk), outBefore |-> Len(out)]
    /\ wire' = SubSeq(wire, k + 1, Len(wire))
    /\ UNCHANGED <<showReasoning, deployment, requestVars, replyVars>>
    /\ UNCHANGED <<serviceVars, connVars>>

\* Mutant: what is left in the buffer is written out before the stream is closed
OnEndFlushes ==
    /\ ~ended
    /\ ended' = TRUE
    /\ wire' = <<>>
    /\ out' = (IF buffer # <<>> THEN Append(out, buffer \o <<NL>>) ELSE out)
    /\ UNCHANGED <<showReasoning, buffer, reasoningStarted, recv, log, last>>
    /\ UNCHANGED <<deployment, requestVars, replyVars, serviceVars, connVars>>

\* response.data.on('end', () => res.end()): the upstream has no more to send
OnEnd ==
    /\ ~ended
    /\ ended' = TRUE
    /\ wire' = <<>>
    /\ UNCHANGED <<showReasoning, buffer, reasoningStarted, out, recv, log, last>>
    /\ UNCHANGED <<deployment, requestVars, replyVars, serviceVars, connVars>>

\* response.data.on('error', err => { ...; res.end() }): the rest never arrives
OnError ==
    /\ ~ended
    /\ wire # <<>>
    /\ ended' = TRUE
    /\ wire' = <<>>
    /\ UNCHANGED <<showReasoning, buffer, reasoningStarted, out, recv, log, last>>
    /\ UNCHANGED <<deployment, requestVars, replyVars, serviceVars, connVars>>

\* The upstream delivers its next chunk, of any size
Deliver == \E k \in 1..Len(wire) : OnData(k)

Next ==
    \/ Deliver
    \/ OnEnd
    \/ OnError

Spec == Init /\ [][Next]_vars

\* The runtime emits 'end' or 'error' on the upstream body once the body has
\* finished or failed, and runs the handler registered for it
SpecFair == Spec /\ WF_vars(OnEnd \/ OnError)

----------------------------------------------------------------------------
(* Reading the outbound stream and the history *)

\* The event a written `data: <json>\n\n` frame carries
WrittenEvent(w) == JsonParse(SubSeq(w, Len(DataPrefix) + 1, Len(w) - 2))

\* A written text is a data line carrying valid JSON, ended by newlines
IsJsonFrame(w) ==
    /\ StartsWith(w, DataPrefix)
    /\ \/ (Len(w) >= 2 /\ w[Len(w)] = NL /\ w[Len(w) - 1] = NL /\ WrittenEvent(w).ok)
       \/ (Len(w) >= 1 /\ w[Len(w)] = NL
             /\ JsonParse(SubSeq(w, Len(DataPrefix) + 1, Len(w) - 1)).ok)

EventIndices == { i \in 1..Len(log) : log[i].kind = "event" }

\* The entries of the log that are merged events (parsed, with a delta)
MergedIndices == { i \in EventIndices : log[i].ev.delta }

CountUnit(t, u) == Cardinality({ i \in 1..Len(t) : t[i] = u })

\* The think markers of the outbound stream, in the order written
Markers(t) == SelectSeq(t, LAMBDA u : u \in {OpenMark, CloseMark})
OutMarkers == Markers(Flatten(out))

\* The reasoning state is threaded through the lines of one connection,
\* starting in NORMAL
StateThreaded ==
    /\ Len(log) > 0 => ~log[1].rsBefore
    /\ \A i \in 1..(Len(log) - 1) : log[i + 1].rsBefore = log[i].rsAfter
    /\ reasoningStarted = (IF Len(log) = 0 THEN FALSE ELSE log[Len(log)].rsAfter)

----------------------------------------------------------------------------
(* C1 *)

\* The merge rules as the specification states them, by cases on the state
\* and on which of the two fields the delta carries
RuleContent(open, r, c) ==
    CASE Truthy(r) /\ Truthy(c) /\ ~open -> <<OpenMark>> \o r.v \o <<CloseMark>> \o c.v
      [] Truthy(r) /\ Truthy(c) /\ open -> r.v \o <<CloseMark>> \o c.v
      [] Truthy(r) /\ ~Truthy(c) /\ ~open -> <<OpenMark>> \o r.v
      [] Truthy(r) /\ ~Truthy(c) /\ open -> r.v
      [] ~Truthy(r) /\ Truthy(c) /\ open -> <<CloseMark>> \o c.v
      [] ~Truthy(r) /\ Truthy(c) /\ ~open -> c.v
      [] OTHER -> <<>>

RuleState(open, r, c) ==
    CASE Truthy(c) -> FALSE
      [] Truthy(r) -> TRUE
      [] OTHER -> open

\* The written contents of the merged events, in order
RECURSIVE WrittenContents(_)
WrittenContents(l) ==
    IF l = <<>> THEN <<>>
    ELSE IF Head(l).kind = "event" /\ Head(l).ev.delta
         THEN <<WrittenEvent(Head(l).wrote).ev.content>> \o WrittenContents(Tail(l))
    ELSE WrittenContents(Tail(l))

RECURSIVE MergedEvents(_)
MergedEvents(l) ==
    IF l = <<>> THEN <<>>
    ELSE IF Head(l).kind = "event" /\ Head(l).ev.delta
         THEN <<Head(l).ev>> \o MergedEvents(Tail(l))
    ELSE MergedEvents(Tail(l))

ToggleSequence ==
    <<Delta(Absent, Str(A)), Delta(Absent, Str(B)), Delta(Str(C), Absent)>>

\* C1: with show-reasoning enabled, on a connection that starts in NORMAL,
\* every merged event's outbound content and the state after it are the ones
\* the merge rules give for the state before it (a field counts as present
\* when it holds text); the deltas {reasoning:a}, {reasoning:b}, {content:c}
\* are written as "<think>\na", "b", "</think>\n\nc" and leave NORMAL.
C1_MergeRules ==
    showReasoning =>
        /\ StateThreaded
        /\ \A i \in MergedIndices :
              LET e == log[i]
                  w == WrittenEvent(e.wrote)
                  want == RuleContent(e.rsBefore, e.ev.reasoning, e.ev.content)
              IN  /\ w.ok /\ w.ev.delta
                  /\ want # <<>> => w.ev.content = Str(want)
                  /\ want = <<>> => w.ev = e.ev
                  /\ e.rsAfter = RuleState(e.rsBefore, e.ev.reasoning, e.ev.content)
        /\ MergedEvents(log) = ToggleSequence =>
              /\ WrittenContents(log)
                   = <<Str(<<OpenMark>> \o A), Str(B), Str(<<CloseMark>> \o C)>>
              /\ ~reasoningStarted

C1_Witness ==
    /\ showReasoning
    /\ MergedEvents(log) = ToggleSequence
    /\ Len(out) = 3
    /\ ~reasoningStarted

----------------------------------------------------------------------------
(* C2 *)

\* C2: when the outbound stream is closed the reasoning state is NORMAL:
\* every "<think>\n" written has been followed by a "</think>" marker.
C2_NoDanglingBlock ==
    ended =>
        /\ ~reasoningStarted
        /\ CountUnit(OutMarkers, OpenMark) = CountUnit(OutMarkers, CloseMark)

----------------------------------------------------------------------------
(* C3 *)

\* C3: reasoning blocks never nest.  The markers written so far alternate,
\* opening first, so an opening marker is written only in NORMAL and a closing
\* one only in REASONING_OPEN; openings minus closings is 1 in REASONING_OPEN
\* and 0 in NORMAL.
C3_NoNesting ==
    /\ \A i \in 1..Len(OutMarkers) :
          OutMarkers[i] = (IF i % 2 = 1 THEN OpenMark ELSE CloseMark)
    /\ CountUnit(OutMarkers, OpenMark) - CountUnit(OutMarkers, CloseMark)
          = (IF reasoningStarted THEN 1 ELSE 0)
    /\ \A i \in MergedIndices :
          LET m == Markers(log[i].wrote)
          IN  /\ (m # <<>> /\ m[1] = OpenMark) => ~log[i].rsBefore
              /\ (m # <<>> /\ m[1] = CloseMark) => log[i].rsBefore

C3_Witness ==
    /\ OutMarkers = <<OpenMark, CloseMark, OpenMark>>
    /\ reasoningStarted

----------------------------------------------------------------------------
(* C4 *)

Fresh == [rs |-> FALSE, out |-> <<>>, log |-> <<>>, ended |-> FALSE, buffer |-> <<>>]

\* The connection after the bytes b arrive as one single chunk
Unsplit(b) == IF b = <<>> THEN Fresh ELSE HandleChunk(Fresh, b, showReasoning)

\* C4: chunk boundaries do not matter.  However the bytes received so far were
\* cut into chunks, the events written and the reasoning state are those of
\* the same bytes delivered as one chunk.
C4_ChunkingIrrelevant ==
    /\ out = Unsplit(recv).out
    /\ reasoningStarted = Unsplit(recv).rs

----------------------------------------------------------------------------
(* C5 *)

\* The complete lines of a text, read off its newlines
RECURSIVE LinesOf(_, _)
LinesOf(t, cur) ==
    IF t = <<>> THEN <<>>
    ELSE IF Head(t) = NL THEN <<cur>> \o LinesOf(Tail(t), <<>>)
    ELSE LinesOf(Tail(t), Append(cur, Head(t)))

IsDataLine(l) == StartsWith(l, DataPrefix)
Payload(l) == SubSeq(l, Len(DataPrefix) + 1, Len(l))

\* The data lines completed by the latest 'data' call
LastDataLines == SelectSeq(LinesOf(last.input, <<>>), IsDataLine)

\* What the latest 'data' call wrote, and the lines it wrote them for
LastWritten == SubSeq(out, last.outBefore + 1, Len(out))
WrittenFor(n) ==
    LET written == SelectSeq(log, LAMBDA e : e.wrote # <<>>)
    IN  SubSeq(written, Len(written) - n + 1, Len(written))

\* C5: a chunk that completes N data lines with parseable event payloads makes
\* the handler write exactly N events while handling it, in the order of the
\* lines, each a data line carrying valid JSON; no complete line is held back.
C5_OneEventPerLine ==
    (\A i \in 1..Len(LastDataLines) : JsonParse(Payload(LastDataLines[i])).ok) =>
        /\ Len(LastWritten) = Len(LastDataLines)
        /\ \A i \in 1..Len(LastWritten) : IsJsonFrame(LastWritten[i])
        /\ LET for == WrittenFor(Len(LastWritten))
           IN  \A i \in 1..Len(LastWritten) :
                  /\ for[i].line = LastDataLines[i]
                  /\ for[i].wrote = LastWritten[i]
        /\ \A i \in 1..Len(buffer) : buffer[i] # NL

C5_Witness ==
    /\ Len(LastDataLines) = 3
    /\ \A i \in 1..3 : JsonParse(Payload(LastDataLines[i])).ok
    /\ LastDataLines[1] # LastDataLines[2]
    /\ last.outBefore = 0
    /\ Len(out) = 3

----------------------------------------------------------------------------
(* C6 *)

Terminator == DataPrefix \o DoneLiteral

\* C6: the terminator line is forwarded byte-identical, and once it is
\* forwarded nothing more is written to that stream.
C6_TerminatorEndsEmission ==
    \A i \in 1..Len(log) :
        log[i].line = Terminator =>
            /\ log[i].wrote = Terminator \o <<NL>>
            /\ \A j \in (i + 1)..Len(log) : log[j].wrote = <<>>

----------------------------------------------------------------------------
(* C7 *)

\* A data line that is no terminator and whose payload JSON.parse rejects
Malformed(l) ==
    /\ IsDataLine(l)
    /\ ~Includes(l, DoneLiteral)
    /\ ~JsonParse(Payload(l)).ok

\* Every complete line received so far has been handled
AllLinesHandled == Len(log) = CountUnit(recv, NL)

\* C7: a data line with an unparseable payload is written out as the raw line,
\* leaves the reasoning state as it was and does not end the stream (only the
\* upstream's end or error closes it): the lines after it, in the same chunk
\* or a later one, are handled like any other.
C7_MalformedPassedThrough ==
    /\ AllLinesHandled
    /\ StateThreaded
    /\ \A i \in 1..Len(log) :
          Malformed(log[i].line) =>
              /\ log[i].wrote = log[i].line \o <<NL>>
              /\ \E j \in 1..Len(out) : out[j] = log[i].wrote
              /\ log[i].rsAfter = log[i].rsBefore
    /\ ended => wire = <<>>
    /\ Len(out) = Cardinality({ i \in 1..Len(log) : IsDataLine(log[i].line) })

C7_Witness ==
    /\ ~ended
    /\ Len(log) >= 3
    /\ Malformed(log[1].line)
    /\ log[3].kind = "event" /\ log[3].ev.delta /\ log[3].rsAfter
    /\ Len(out) = 2

----------------------------------------------------------------------------
(* C8 *)

\* C8: with show-reasoning disabled every merged event is written with the
\* upstream content (the empty string when it has none) and without a
\* reasoning field, the state stays NORMAL and no think marker is written.
C8_HiddenReasoning ==
    ~showReasoning =>
        /\ ~reasoningStarted
        /\ OutMarkers = <<>>
        /\ \A i \in MergedIndices :
              LET e == log[i]
                  w == WrittenEvent(e.wrote)
              IN  /\ w.ok /\ w.ev.delta
                  /\ w.ev.content = (IF e.ev.content.has THEN e.ev.content ELSE Str(<<>>))
                  /\ ~w.ev.reasoning.has
                  /\ ~e.rsBefore /\ ~e.rsAfter

C8_Witness ==
    /\ ~showReasoning
    /\ \E i \in MergedIndices : Truthy(log[i].ev.reasoning) /\ Truthy(log[i].ev.content)
    /\ \E i \in MergedIndices : Truthy(log[i].ev.reasoning) /\ ~log[i].ev.content.has

----------------------------------------------------------------------------
(* The non-streaming response transcoder *)

CloseBlock == "\n</think>\n\n"

Deployments == {"server", "worker"}

\* An upstream choice: message.content and message.reasoning_content, and the
\* choice-level content and reasoning_content that worker.js falls back to
Choice(c, r) == [content |-> c, reasoning |-> r, topContent |-> Absent, topReasoning |-> Absent]

\* a ?? b
Coalesce(a, b) == IF a.has THEN a ELSE b

\* Mutant: the block is closed with the streaming marker, without the newline
\* that ends the reasoning text
ServerChoiceContentStreamClose(choice, show) ==
    LET fullContent == IF Truthy(choice.content) THEN choice.content.v ELSE <<>>
    IN  IF show /\ Truthy(choice.reasoning)
        THEN <<OpenMark>> \o choice.reasoning.v \o <<CloseMark>> \o fullContent
        ELSE fullContent

\* server.js: choices.map(choice => ...), the content of the message returned
ServerChoiceContent(choice, show) ==
    LET fullContent == IF Truthy(choice.content) THEN choice.content.v ELSE <<>>
    IN  IF show /\ Truthy(choice.reasoning)
        THEN <<OpenMark>> \o choice.reasoning.v \o <<CloseBlock>> \o fullContent
        ELSE fullContent

\* worker.js: nimJson.choices.map(choice => ...), the content of the message returned
WorkerChoiceContent(choice, show) ==
    LET content == Coalesce(Coalesce(choice.content, choice.topContent), Str(<<>>)).v
        reasoning == Coalesce(choice.reasoning, choice.topReasoning)
    IN  IF show /\ Truthy(reasoning)
        THEN <<OpenMark>> \o reasoning.v \o <<CloseBlock>> \o content
        ELSE content

ChoiceContent(dep, choice, show) ==
    IF dep = "server" THEN ServerChoiceContent(choice, show)
    ELSE WorkerChoiceContent(choice, show)

Hi == <<"Hi">>
Thinking == <<"thinking...">>

ContentValues == {Absent, Str(<<>>), Str(Hi)}
ReasoningValues == {Absent, Str(<<>>), Str(Thinking)}
Choices == { Choice(c, r) : c \in ContentValues, r \in ReasoningValues }

\* A complete upstream response arrives for a request with stream off
ReplyInit ==
    /\ deployment \in Deployments
    /\ showReasoning \in BOOLEAN
    /\ upstream \in UNION { [1..n -> Choices] : n \in 0..MaxChoices }
    /\ reply = NoReply
    /\ StreamIdle
    /\ RequestIdle
    /\ ServiceIdle
    /\ ConnsIdle

\* res.json(openaiResponse) / return jsonResponse(openaiResponse, nimResp.status)
Respond ==
    /\ ~reply.sent
    /\ reply' = [sent |-> TRUE,
                 choices |-> [i \in 1..Len(upstream) |->
                                 ChoiceContent(deployment, upstream[i], showReasoning)]]
    /\ UNCHANGED <<showReasoning, deployment, upstream, streamVars, requestVars>>
    /\ UNCHANGED <<serviceVars, connVars>>

ReplyNext == Respond

SpecReply == ReplyInit /\ [][ReplyNext]_vars

----------------------------------------------------------------------------
(* C9 *)

\* C9: the message content returned for an upstream choice is
\* "<think>\n" + reasoning_content + "\n</think>\n\n" + content when show-reasoning
\* is enabled and the choice carries reasoning text, and the upstream content
\* (the empty string when absent) with no think marker otherwise; with the
\* toggle off no reasoning text is returned.
C9_NonStreamingContent ==
    reply.sent =>
        /\ Len(reply.choices) = Len(upstream)
        /\ \A i \in 1..Len(upstream) :
              LET c == upstream[i].content
                  r == upstream[i].reasoning
                  plain == IF c.has THEN c.v ELSE <<>>
              IN  /\ (showReasoning /\ Truthy(r)) =>
                         reply.choices[i] = <<OpenMark>> \o r.v \o <<CloseBlock>> \o plain
                  /\ ~(showReasoning /\ Truthy(r)) =>
                         /\ reply.choices[i] = plain
                         /\ \A k \in 1..Len(reply.choices[i]) :
                               reply.choices[i][k] \notin {OpenMark, CloseBlock, CloseMark}
                  /\ ~showReasoning =>
                         \A k \in 1..Len(reply.choices[i]) : reply.choices[i][k] # "thinking..."
                  /\ (showReasoning /\ c = Str(Hi) /\ r = Str(Thinking)) =>
                         reply.choices[i] = <<"<think>\n", "thinking...", "\n</think>\n\n", "Hi">>

C9_Witness ==
    /\ reply.sent
    /\ Len(upstream) = 2
    /\ showReasoning
    /\ upstream[1] = Choice(Str(Hi), Str(Thinking))
    /\ upstream[2] = Choice(Str(Hi), Absent)
    /\ reply.choices[1] = <<OpenMark>> \o Thinking \o <<CloseBlock>> \o Hi
    /\ reply.choices[2] = Hi

----------------------------------------------------------------------------
(* Model resolution and the upstream request *)

\* Model names are texts too: 'gpt-4-turbo' is <<"gpt-4", "-turbo">>, cut so
\* that every keyword the fallback rules search for is a run of whole units.

\* String.prototype.toLowerCase, on the units the inbound names use
LowerUnit(u) ==
    CASE u = "GPT-4" -> "gpt-4"
      [] u = "DeepSeek" -> "deepseek"
      [] u = "Claude" -> "claude"
      [] u = "-R1" -> "-r1"
      [] u = "toString" -> "tostring"
      [] OTHER -> u
ToLowerCase(t) == [i \in 1..Len(t) |-> LowerUnit(t[i])]

DeepseekV32 == <<"deepseek-ai/deepseek-v3.2">>
Llama405b == <<"meta/llama-3.1-405b-instruct">>
Llama70b == <<"meta/llama-3.1-70b-instruct">>
Llama8b == <<"meta/llama-3.1-8b-instruct">>

\* MODEL_MAPPING of server.js
ServerMapping ==
    (<<"3.2 ", "deepseek">> :> DeepseekV32)
    @@ (<<"deepseek">> :> DeepseekV32)
    @@ (<<"gpt-4">> :> DeepseekV32)
    @@ (<<"gpt-3.5", "-turbo">> :> <<"nvidia/llama-3.1-nemotron-ultra-253b-v1">>)
    @@ (<<"gpt-4", "-turbo">> :> <<"moonshotai/kimi-k2-thinking">>)
    @@ (<<"gpt-4", "o">> :> <<"deepseek-ai/deepseek-v3.1-terminus">>)
    @@ (<<"claude", "-3-opus">> :> <<"openai/gpt-oss-120b">>)
    @@ (<<"claude", "-3-sonnet">> :> <<"openai/gpt-oss-20b">>)
    @@ (<<"deepseek", "-ai/", "deepseek", "-v3.1-terminus">>
           :> <<"qwen/qwen3-next-80b-a3b-thinking">>)

\* MODEL_MAPPING of worker.js
WorkerMapping ==
    (<<"gpt-3.5", "-turbo">> :> <<"nvidia/llama-3.1-nemotron-ultra-253b-v1">>)
    @@ (<<"gpt-4">> :> <<"qwen/qwen3-coder-480b-a35b-instruct">>)
    @@ (<<"gpt-4", "-turbo">> :> <<"moonshotai/kimi-k2-instruct-0905">>)
    @@ (<<"gpt-4", "o">> :> <<"deepseek-ai/deepseek-v3.1">>)
    @@ (<<"claude", "-3-opus">> :> <<"openai/gpt-oss-120b">>)
    @@ (<<"claude", "-3-sonnet">> :> <<"openai/gpt-oss-20b">>)
    @@ (<<"gemini", "-pro">> :> <<"qwen/qwen3-next-80b-a3b-thinking">>)

Mapping(dep) == IF dep = "server" THEN ServerMapping ELSE WorkerMapping

\* Names every object inherits from Object.prototype: MODEL_MAPPING[name] is
\* then a function of the runtime, not undefined
InheritedNames == { <<"constructor">>, <<"toString">> }

\* What resolution yields: an upstream id, a value that is no string, or a
\* TypeError thrown
Resolved(id) == [kind |-> "id", v |-> id]
InheritedValue == [kind |-> "function", v |-> <<>>]
Throws == [kind |-> "throws", v |-> <<>>]

\* MODEL_MAPPING[model]: found = FALSE stands for undefined
Lookup(table, model) ==
    IF model.has /\ model.v \in DOMAIN table
    THEN [found |-> TRUE, value |-> Resolved(table[model.v])]
    ELSE IF model.has /\ model.v \in InheritedNames
    THEN [found |-> TRUE, value |-> InheritedValue]
    ELSE [found |-> FALSE, value |-> Throws]

\* server.js: let nimModel = MODEL_MAPPING[model]; if (!nimModel) { ... }
ServerResolve(model) ==
    LET hit == Lookup(ServerMapping, model)
    IN  IF hit.found THEN hit.value
        ELSE IF ~model.has THEN Throws   \* model.toLowerCase() on undefined
        ELSE IF Includes(ToLowerCase(model.v), <<"deepseek">>) THEN Resolved(DeepseekV32)
        ELSE Resolved(model.v)

\* worker.js: const { model = '' } = body; MODEL_MAPPING[model]; the ladder
WorkerResolve(model) ==
    LET name == IF model.has THEN model ELSE Str(<<>>)
        hit == Lookup(WorkerMapping, name)
        modelLower == ToLowerCase(name.v)
    IN  IF hit.found THEN hit.value
        ELSE IF \/ Includes(modelLower, <<"gpt-4">>)
                \/ Includes(modelLower, <<"claude", "-opus">>)
                \/ Includes(modelLower, <<"405b">>)
        THEN Resolved(Llama405b)
        ELSE IF \/ Includes(modelLower, <<"claude">>)
                \/ Includes(modelLower, <<"gemini">>)
                \/ Includes(modelLower, <<"70b">>)
        THEN Resolved(Llama70b)
        ELSE Resolved(Llama8b)

Resolve(dep, model) == IF dep = "server" THEN ServerResolve(model) ELSE WorkerResolve(model)

\* Numbers: temperature in tenths (0.6 is 6), max_tokens as it is
Num(n) == [has |-> TRUE, v |-> n]
NoNum == [has |-> FALSE, v |-> 0]

DefaultTemperature == 6
ServerMaxTokens == 8192
WorkerMaxTokens == 9024

\* a || b on a number: 0 is falsy
OrDefault(a, d) == IF a.has /\ a.v # 0 THEN a ELSE Num(d)

\* typeof a !== 'undefined' ? a : d
DefinedOr(a, d) == IF a.has THEN a ELSE Num(d)

\* server.js: const nimRequest = { ... }
ServerRequest(b, nimModel) ==
    [model |-> nimModel,
     temperature |-> OrDefault(b.temperature, DefaultTemperature),
     max_tokens |-> OrDefault(b.max_tokens, ServerMaxTokens),
     stream |-> b.stream]

\* worker.js: const nimRequestBody = { ... }
WorkerRequest(b, nimModel) ==
    [model |-> nimModel,
     temperature |-> DefinedOr(b.temperature, DefaultTemperature),
     max_tokens |-> DefinedOr(b.max_tokens, WorkerMaxTokens),
     stream |-> b.stream]

\* The handler up to the upstream call: the request it sends, or the 500 of
\* its catch block when resolution throws
Transcode(dep, b) ==
    LET m == Resolve(dep, b.model)
    IN  IF m.kind = "throws"
        THEN [status |-> "error", code |-> 500, request |-> NoBody]
        ELSE [status |-> "sent", code |-> 0,
              request |-> IF dep = "server" THEN ServerRequest(b, m) ELSE WorkerRequest(b, m)]

ModelNames ==
    DOMAIN ServerMapping \cup DOMAIN WorkerMapping \cup InheritedNames
    \cup { <<>>, <<"GPT-4">>, <<"gpt-4", "-32k">>, <<"Claude", "-opus", "-4">>,
           <<"claude", "-2">>, <<"gemini", "-ultra">>, <<"llama-", "70b">>,
           <<"llama-", "405b">>, <<"DeepSeek", "-R1">>, <<"mistral">> }

Bodies ==
    [model : {Absent} \cup { Str(n) : n \in ModelNames },
     temperature : {NoNum, Num(0), Num(7)},
     max_tokens : {NoNum, Num(0), Num(100)},
     stream : BOOLEAN]

\* POST /v1/chat/completions arrives
RequestInit ==
    /\ deployment \in Deployments
    /\ showReasoning = TRUE
    /\ body \in Bodies
    /\ outcome = Pending
    /\ StreamIdle
    /\ ReplyIdle
    /\ ServiceIdle
    /\ ConnsIdle

HandlePost ==
    /\ outcome.status = "pending"
    /\ outcome' = Transcode(deployment, body)
    /\ UNCHANGED <<showReasoning, deployment, body, streamVars, replyVars>>
    /\ UNCHANGED <<serviceVars, connVars>>

RequestNext == HandlePost

SpecRequest == RequestInit /\ [][RequestNext]_vars

----------------------------------------------------------------------------
(* C10 *)

\* The values the fallback rules of a deployment can yield for a name that
\* the mapping table does not hold
FallbackLadder(dep, model) ==
    IF dep = "server" THEN {DeepseekV32} \cup (IF model.has THEN {model.v} ELSE {})
    ELSE {Llama405b, Llama70b, Llama8b}

InTable(dep, model) == model.has /\ model.v \in DOMAIN Mapping(dep)

\* C10: model resolution is total.  A model held by the mapping table resolves
\* to the configured upstream id, every other inbound model value (an absent or
\* empty one too) resolves to a value of the fallback ladder, and no error
\* response is produced.
C10_ResolutionTotal ==
    outcome.status # "pending" =>
        /\ outcome.status = "sent"
        /\ outcome.request.model.kind = "id"
        /\ InTable(deployment, body.model) =>
              outcome.request.model.v = Mapping(deployment)[body.model.v]
        /\ ~InTable(deployment, body.model) =>
              outcome.request.model.v \in FallbackLadder(deployment, body.model)

----------------------------------------------------------------------------
(* C11 *)

\* What the handler's default rule yields for an inbound parameter, as the
\* specification states it: the default when the parameter is absent, the
\* supplied value otherwise
Defaulted(a, d) == IF a.has THEN a ELSE Num(d)

MaxTokensDefault(dep) == IF dep = "server" THEN ServerMaxTokens ELSE WorkerMaxTokens

\* C11: in the upstream request the temperature is the default 0.6 exactly
\* when the inbound temperature is absent and max_tokens is the deployment's
\* default (8192 or 9024) exactly when the inbound max_tokens is absent; a
\* supplied value of either parameter is sent upstream unchanged.
C11_DefaultsOnlyWhenAbsent ==
    outcome.status = "sent" =>
        /\ outcome.request.temperature = Defaulted(body.temperature, DefaultTemperature)
        /\ outcome.request.max_tokens
              = Defaulted(body.max_tokens, MaxTokensDefault(deployment))
        /\ body.temperature.has => outcome.request.temperature = body.temperature
        /\ body.max_tokens.has => outcome.request.max_tokens = body.max_tokens

----------------------------------------------------------------------------
(* The POST handler around its upstream call, with requests in flight together *)

MaxRequests == 2
MaxClock == 2

Credentials == {"set", "empty", "unbound"}

\* What the upstream call comes back with: a 2xx response with choices, a
\* non-2xx response whose body is JSON or not, or no response at all
UpstreamOk ==
    [kind |-> "ok", status |-> 200, json |-> TRUE,
     choices |-> <<Choice(Str(Hi), Str(Thinking))>>]
UpstreamHttpError(status, json) ==
    [kind |-> "http", status |-> status, json |-> json, choices |-> <<>>]
TransportError == [kind |-> "transport", status |-> 0, json |-> FALSE, choices |-> <<>>]
NoResult == [kind |-> "none", status |-> 0, json |-> FALSE, choices |-> <<>>]

UpstreamResults ==
    {UpstreamOk, UpstreamHttpError(401, TRUE), UpstreamHttpError(503, FALSE), TransportError}

\* What the client is answered with
NoResponse ==
    [status |-> 0, kind |-> "none", id |-> NoNum, choices |-> <<>>,
     message |-> Absent, type |-> Absent, code |-> NoNum]
\* { id: `chatcmpl-${Date.now()}`, object: 'chat.completion', choices, ... }
Completion(status, now, choices) ==
    [status |-> status, kind |-> "completion", id |-> Num(now), choices |-> choices,
     message |-> Absent, type |-> Absent, code |-> NoNum]
\* { error: { message, type, code } }
ErrorBody(status, message, type, code) ==
    [status |-> status, kind |-> "error", id |-> NoNum, choices |-> <<>>,
     message |-> message, type |-> type, code |-> code]
\* a text/event-stream body
Streamed(status) == [NoResponse EXCEPT !.status = status, !.kind = "stream"]
\* textResponse(text, status)
TextBody(status) == [NoResponse EXCEPT !.status = status, !.kind = "text"]

InvalidRequest == Str(<<"invalid_request_error">>)
KeyName == "NIM_API_KEY"
NotConfigured == Str(<<KeyName, " not configured">>)
NotDefined == Str(<<KeyName, " is not defined">>)
ResolutionError == Str(<<"Cannot read properties of undefined (reading 'toLowerCase')">>)

\* error.message of the rejected upstream call
CallMessage(result) ==
    IF result.kind = "http" THEN Str(<<"Request failed with status code">>)
    ELSE Str(<<"network error">>)

Passed == [ok |-> TRUE, response |-> NoResponse]
Refused(response) == [ok |-> FALSE, response |-> response]

\* Mutant: the `if (!nimKey)` test is missing
WorkerKeyCheckMissing(cred) ==
    IF cred = "unbound" THEN Refused(ErrorBody(500, NotDefined, Absent, NoNum))
    ELSE Passed

\* worker.js: const nimKey = NIM_API_KEY; if (!nimKey) return 500.  Reading a
\* global that was never bound throws a ReferenceError, which the handler's
\* catch turns into a 500 carrying err.message.
WorkerKeyCheck(cred) ==
    IF cred = "unbound" THEN Refused(ErrorBody(500, NotDefined, Absent, NoNum))
    ELSE IF cred = "empty" THEN Refused(ErrorBody(500, NotConfigured, Absent, NoNum))
    ELSE Passed

\* server.js: the handler up to axios.post.  NIM_API_KEY is a literal of the
\* source and is not tested.
ServerBegin(b) ==
    IF Transcode("server", b).status = "error"
    THEN Refused(ErrorBody(500, ResolutionError, InvalidRequest, Num(500)))
    ELSE Passed

\* worker.js: the handler from the parsed body up to fetch
WorkerCall(b) ==
    IF Transcode("worker", b).status = "error"
    THEN Refused(ErrorBody(500, ResolutionError, Absent, NoNum))
    ELSE Passed

\* server.js after `await axios.post(...)`: axios rejects on a non-2xx status
\* and on a transport error, and the catch block answers
ServerFinish(stream, result, now, show) ==
    IF result.kind = "ok"
    THEN IF stream THEN Streamed(200)
         ELSE Completion(200, now,
                         [i \in 1..Len(result.choices) |->
                             ServerChoiceContent(result.choices[i], show)])
    ELSE LET status == IF result.kind = "http" THEN result.status ELSE 500
         IN  ErrorBody(status, CallMessage(result), InvalidRequest, Num(status))

\* worker.js after `await fetch(...)`: fetch rejects on a transport error only;
\* a non-2xx response is piped (stream), transformed like any JSON body, or
\* answered as text when its body is no JSON
WorkerFinish(stream, result, now, show) ==
    IF result.kind = "transport"
    THEN ErrorBody(500, CallMessage(result), Absent, NoNum)
    ELSE IF stream THEN Streamed(result.status)
    ELSE IF result.json
    THEN Completion(result.status, now,
                    [i \in 1..Len(result.choices) |->
                        WorkerChoiceContent(result.choices[i], show)])
    ELSE TextBody(result.status)

\* The third application of the repository: POST /api/chat
ChatApp == "chat"
Applications == Deployments \cup {ChatApp}

UserHi == [role |-> "user", content |-> "hi"]
\* { content: 'detailed thinking on', role: 'system' }
SystemThinking == [role |-> "system", content |-> "detailed thinking on"]

\* await nimRequest(nimMessages): the promise resolves with the upstream's
\* answer or rejects
ChatResolved == [kind |-> "resolved", status |-> 0, json |-> TRUE, choices |-> <<>>]
ChatRejected == [kind |-> "rejected", status |-> 0, json |-> FALSE, choices |-> <<>>]
ChatResults == {ChatResolved, ChatRejected}

\* res.json(response)
PassedOn == [NoResponse EXCEPT !.status = 200, !.kind = "json"]
\* res.status(500).send('Internal Server Error')
InternalServerError ==
    [TextBody(500) EXCEPT !.message = Str(<<"Internal Server Error">>)]

\* /api/chat after `await nimRequest(...)`
ChatFinish(result) ==
    IF result.kind = "resolved" THEN PassedOn ELSE InternalServerError

ServiceBodies ==
    [model : {Absent, Str(<<"gpt-4">>)}, temperature : {NoNum},
     max_tokens : {NoNum}, stream : BOOLEAN, messages : {<<UserHi>>}]

NoServiceBody ==
    [model |-> Absent, temperature |-> NoNum, max_tokens |-> NoNum,
     stream |-> FALSE, messages |-> <<>>]

\* A request: where its handler stands (pc), the body it came with, the stream
\* flag once read from the body, the messages sent upstream, the upstream
\* calls made, the answers given, what the call came back with, the answer
Idle ==
    [pc |-> "idle", body |-> NoServiceBody, stream |-> FALSE, sent |-> <<>>,
     calls |-> 0, responses |-> 0, result |-> NoResult, response |-> NoResponse]

\* The service is up: server.js carries its key, a Worker has NIM_API_KEY
\* bound to a secret, bound to nothing useful, or not bound; the /api/chat
\* application leaves the key to its nimRequest
ServiceInit ==
    /\ deployment \in Applications
    /\ showReasoning = TRUE
    /\ credential \in (IF deployment = "worker" THEN Credentials ELSE {"set"})
    /\ clock = 0
    /\ reqs = [r \in 1..MaxRequests |-> Idle]
    /\ StreamIdle
    /\ RequestIdle
    /\ ReplyIdle
    /\ ConnsIdle

Answered(req, response) ==
    [req EXCEPT !.pc = "done", !.responses = @ + 1, !.response = response]

\* server.js: POST /v1/chat/completions arrives with its body parsed and the
\* handler runs, without a pause, up to axios.post
Begin(r) ==
    /\ deployment = "server"
    /\ reqs[r].pc = "idle"
    /\ \E b \in ServiceBodies :
         \E g \in {ServerBegin(b)} :
            reqs' = [reqs EXCEPT ![r] =
                        IF g.ok
                        THEN [@ EXCEPT !.pc = "awaiting", !.body = b, !.stream = b.stream,
                                       !.sent = b.messages, !.calls = @ + 1]
                        ELSE Answered([@ EXCEPT !.body = b, !.stream = b.stream],
                                      g.response)]
    /\ UNCHANGED <<showReasoning, deployment, credential, clock>>
    /\ UNCHANGED <<streamVars, requestVars, replyVars, connVars>>

\* worker.js: POST /v1/chat/completions arrives; the handler tests the key and
\* then waits for `await request.json()`
KeyTest(r) ==
    /\ deployment = "worker"
    /\ reqs[r].pc = "idle"
    /\ \E b \in ServiceBodies :
         \E g \in {WorkerKeyCheck(credential)} :
            reqs' = [reqs EXCEPT ![r] =
                        IF g.ok THEN [@ EXCEPT !.pc = "parsing", !.body = b]
                        ELSE Answered([@ EXCEPT !.body = b], g.response)]
    /\ UNCHANGED <<showReasoning, deployment, credential, clock>>
    /\ UNCHANGED <<streamVars, requestVars, replyVars, connVars>>

\* worker.js: request.json() resolves; the handler resolves the model, builds
\* the upstream request and calls fetch
BodyParsed(r) ==
    /\ deployment = "worker"
    /\ reqs[r].pc = "parsing"
    /\ \E g \in {WorkerCall(reqs[r].body)} :
          reqs' = [reqs EXCEPT ![r] =
                      IF g.ok
                      THEN [@ EXCEPT !.pc = "awaiting", !.stream = reqs[r].body.stream,
                                     !.sent = reqs[r].body.messages, !.calls = @ + 1]
                      ELSE Answered([@ EXCEPT !.stream = reqs[r].body.stream],
                                    g.response)]
    /\ UNCHANGED <<showReasoning, deployment, credential, clock>>
    /\ UNCHANGED <<streamVars, requestVars, replyVars, connVars>>

\* part_001: POST /api/chat arrives; the handler copies the messages, puts the
\* system message in front and calls nimRequest
ChatBegin(r) ==
    /\ deployment = ChatApp
    /\ reqs[r].pc = "idle"
    /\ \E b \in ServiceBodies :
          reqs' = [reqs EXCEPT ![r] =
                      [@ EXCEPT !.pc = "awaiting", !.body = b,
                                !.sent = <<SystemThinking>> \o b.messages,
                                !.calls = @ + 1]]
    /\ UNCHANGED <<showReasoning, deployment, credential, clock>>
    /\ UNCHANGED <<streamVars, requestVars, replyVars, connVars>>

\* server.js: axios.post settles and the handler answers without a pause
Settle(r) ==
    /\ deployment = "server"
    /\ reqs[r].pc = "awaiting"
    /\ \E result \in UpstreamResults :
          reqs' = [reqs EXCEPT ![r] =
                      Answered([@ EXCEPT !.result = result],
                               ServerFinish(reqs[r].stream, result, clock, showReasoning))]
    /\ UNCHANGED <<showReasoning, deployment, credential, clock>>
    /\ UNCHANGED <<streamVars, requestVars, replyVars, connVars>>

\* worker.js: fetch settles.  A rejection is answered by the catch block and a
\* streaming request by the piped body at once; otherwise the handler waits
\* for `await nimResp.json()`
FetchSettled(r) ==
    /\ deployment = "worker"
    /\ reqs[r].pc = "awaiting"
    /\ \E result \in UpstreamResults :
          reqs' = [reqs EXCEPT ![r] =
                      IF result.kind = "transport" \/ reqs[r].stream
                      THEN Answered([@ EXCEPT !.result = result],
                                    WorkerFinish(reqs[r].stream, result, clock,
                                                 showReasoning))
                      ELSE [@ EXCEPT !.pc = "reading", !.result = result]]
    /\ UNCHANGED <<showReasoning, deployment, credential, clock>>
    /\ UNCHANGED <<streamVars, requestVars, replyVars, connVars>>

\* worker.js: nimResp.json() settles.  With a JSON body the handler reads
\* Date.now() and answers; otherwise it waits for `await nimResp.text()`
BodyRead(r) ==
    /\ deployment = "worker"
    /\ reqs[r].pc = "reading"
    /\ reqs' = [reqs EXCEPT ![r] =
                    IF reqs[r].result.json
                    THEN Answered(@, WorkerFinish(FALSE, reqs[r].result, clock,
                                                  showReasoning))
                    ELSE [@ EXCEPT !.pc = "readingText"]]
    /\ UNCHANGED <<showReasoning, deployment, credential, clock>>
    /\ UNCHANGED <<streamVars, requestVars, replyVars, connVars>>

\* worker.js: nimResp.text() settles and the handler answers with the text
TextRead(r) ==
    /\ deployment = "worker"
    /\ reqs[r].pc = "readingText"
    /\ reqs' = [reqs EXCEPT ![r] =
                    Answered(@, WorkerFinish(FALSE, reqs[r].result, clock, showReasoning))]
    /\ UNCHANGED <<showReasoning, deployment, credential, clock>>
    /\ UNCHANGED <<streamVars, requestVars, replyVars, connVars>>

\* part_001: nimRequest settles and the handler answers
ChatSettle(r) ==
    /\ deployment = ChatApp
    /\ reqs[r].pc = "awaiting"
    /\ \E result \in ChatResults :
          reqs' = [reqs EXCEPT ![r] =
                      Answered([@ EXCEPT !.result = result], ChatFinish(result))]
    /\ UNCHANGED <<showReasoning, deployment, credential, clock>>
    /\ UNCHANGED <<streamVars, requestVars, replyVars, connVars>>

\* A millisecond passes
Tick ==
    /\ clock < MaxClock
    /\ clock' = clock + 1
    /\ UNCHANGED <<showReasoning, deployment, credential, reqs>>
    /\ UNCHANGED <<streamVars, requestVars, replyVars, connVars>>

Arrive == \E r \in 1..MaxRequests : Begin(r)
Answer == \E r \in 1..MaxRequests : Settle(r)
WorkerArrive == \E r \in 1..MaxRequests : KeyTest(r)
WorkerParsed == \E r \in 1..MaxRequests : BodyParsed(r)
WorkerSettled == \E r \in 1..MaxRequests : FetchSettled(r)
WorkerRead == \E r \in 1..MaxRequests : BodyRead(r)
WorkerText == \E r \in 1..MaxRequests : TextRead(r)
ChatArrive == \E r \in 1..MaxRequests : ChatBegin(r)
ChatAnswer == \E r \in 1..MaxRequests : ChatSettle(r)

ServiceNext ==
    \/ Arrive
    \/ Answer
    \/ WorkerArrive
    \/ WorkerParsed
    \/ WorkerSettled
    \/ WorkerRead
    \/ WorkerText
    \/ ChatArrive
    \/ ChatAnswer
    \/ Tick

SpecService == ServiceInit /\ [][ServiceNext]_vars

----------------------------------------------------------------------------
(* C12 *)

\* C12: the ids of any two non-streaming responses differ, also when the two
\* requests are handled at the same time.
C12_IdsUnique ==
    \A r1, r2 \in 1..MaxRequests :
        (r1 # r2 /\ reqs[r1].response.kind = "completion"
                 /\ reqs[r2].response.kind = "completion")
            => reqs[r1].response.id # reqs[r2].response.id

----------------------------------------------------------------------------
(* C13 *)

\* C13: while the upstream credential is not configured, no upstream call is
\* issued for any request, and every request is answered with status 500 and
\* an error message that names the missing key.
C13_NoCallWithoutCredential ==
    credential # "set" =>
        \A r \in 1..MaxRequests :
            /\ reqs[r].calls = 0
            /\ reqs[r].pc \in {"idle", "done"}
            /\ reqs[r].pc = "done" =>
                  /\ reqs[r].response.kind = "error"
                  /\ reqs[r].response.status = 500
                  /\ Truthy(reqs[r].response.message)
                  /\ reqs[r].response.message.v[1] = KeyName
                  /\ reqs[r].responses = 1

C13_Witness ==
    /\ deployment = "worker"
    /\ credential = "empty"
    /\ reqs[1].pc = "done"
    /\ reqs[1].response = ErrorBody(500, NotConfigured, Absent, NoNum)
    /\ reqs[1].calls = 0

----------------------------------------------------------------------------
(* C14 *)

\* C14: a non-streaming request whose upstream call failed (non-2xx status or
\* transport error) is answered once, with a JSON body {error: {message,
\* type: "invalid_request_error", code}} whose status and code are the
\* upstream status when there is one and 500 otherwise, never with a
\* chat.completion body, and the upstream call is made once.
C14_UpstreamFailureSurfaced ==
    \A r \in 1..MaxRequests :
        (reqs[r].pc = "done" /\ ~reqs[r].stream
                             /\ reqs[r].result.kind \in {"http", "transport"}) =>
            LET want == IF reqs[r].result.kind = "http" THEN reqs[r].result.status ELSE 500
                resp == reqs[r].response
            IN  /\ resp.kind = "error"
                /\ Truthy(resp.message)
                /\ resp.type = InvalidRequest
                /\ resp.status = want
                /\ resp.code = Num(want)
                /\ reqs[r].calls = 1
                /\ reqs[r].responses = 1

----------------------------------------------------------------------------
(* C15 *)

\* What the handled lines wrote, in order
WritesOfLog ==
    LET w == SelectSeq(log, LAMBDA e : e.wrote # <<>>)
    IN  [i \in 1..Len(w) |-> w[i].wrote]

\* The outbound stream holds what the complete lines wrote and nothing else:
\* the text after the last newline received has written nothing
PartialLineUnwritten ==
    /\ AllLinesHandled
    /\ out = WritesOfLog

\* C15: after the upstream's end or error the outbound stream is eventually
\* closed; when it is closed, only complete lines have written to it (what was
\* left in the accumulation buffer is discarded), and nothing is written after
\* the close.
C15_ClosedAndDiscarded ==
    /\ <>ended
    /\ [](ended => PartialLineUnwritten)
    /\ [][ended => (ended' /\ out' = out)]_vars

C15_Witness ==
    /\ ended
    /\ StartsWith(buffer, DataPrefix)
    /\ Len(buffer) > Len(DataPrefix)
    /\ Len(out) = 1
    /\ Len(recv) > 0 /\ recv[Len(recv)] # NL

----------------------------------------------------------------------------
(* Streaming connections open at the same time *)

MaxConns == 2

Conns == 1..MaxConns

ConnWires == { Utf8Encode(Flatten(s)) : s \in {<<ReasoningA>>, <<ContentC>>} }

\* A connection as the handler sets it up: let buffer = ''; let
\* reasoningStarted = false; res open and nothing written
NewConn(w) == [wire |-> w, buffer |-> <<>>, rs |-> FALSE, out |-> <<>>, ended |-> FALSE]

\* Mutant: buffer and reasoningStarted are declared once, outside the request
\* handler, so every connection's 'data' handler uses the same pair
ClosureShared(c) == 1

\* The closure whose buffer and reasoningStarted the 'data' handler of
\* connection c reads and writes: the one its own request handler created
Closure(c) == c

ConnsInit ==
    /\ deployment = "server"
    /\ showReasoning = TRUE
    /\ conns \in [Conns -> { NewConn(w) : w \in ConnWires }]
    /\ solo = [c \in Conns |-> Fresh]
    /\ StreamIdle
    /\ RequestIdle
    /\ ReplyIdle
    /\ ServiceIdle

\* response.data.on('data') of connection c: the variables are those of its
\* closure, res is its own response
ConnData(c, k) ==
    /\ ~conns[c].ended
    /\ k \in 1..Len(conns[c].wire)
    /\ LET chunk == SubSeq(conns[c].wire, 1, k)
           own == Closure(c)
       IN  /\ \E r \in {HandleChunk([rs |-> conns[own].rs, buffer |-> conns[own].buffer,
                                      out |-> conns[c].out, log |-> <<>>,
                                      ended |-> FALSE], chunk, showReasoning)} :
                 conns' = [conns EXCEPT ![own].rs = r.rs,
                                        ![own].buffer = r.buffer,
                                        ![c].out = r.out,
                                        ![c].wire = SubSeq(@, k + 1, Len(@))]
           /\ solo' = [solo EXCEPT ![c] =
                          [HandleChunk(@, chunk, showReasoning) EXCEPT !.log = <<>>]]
    /\ UNCHANGED <<showReasoning, deployment>>
    /\ UNCHANGED <<streamVars, requestVars, replyVars, serviceVars>>

\* response.data.on('end' / 'error') of connection c: res.end()
ConnEnd(c) ==
    /\ ~conns[c].ended
    /\ conns' = [conns EXCEPT ![c].ended = TRUE, ![c].wire = <<>>]
    /\ UNCHANGED <<showReasoning, deployment, solo>>
    /\ UNCHANGED <<streamVars, requestVars, replyVars, serviceVars>>

ConnDeliver == \E c \in Conns : \E k \in 1..Len(conns[c].wire) : ConnData(c, k)
ConnClose == \E c \in Conns : ConnEnd(c)

ConnsNext ==
    \/ ConnDeliver
    \/ ConnClose

SpecConns == ConnsInit /\ [][ConnsNext]_vars

----------------------------------------------------------------------------
(* C16 *)

\* Every connection stands where its own chunks alone put it
Isolated ==
    \A c \in Conns :
        /\ conns[c].out = solo[c].out
        /\ conns[c].rs = solo[c].rs
        /\ conns[c].buffer = solo[c].buffer

\* A step of one connection leaves every other connection as it was
OneAtATime ==
    \A c, d \in Conns :
        (c # d /\ conns'[c] # conns[c]) => conns'[d] = conns[d]

\* C16: with streaming connections handled together and their chunks
\* interleaved in any order, each connection's reasoning state, buffer and
\* outbound events are those its own chunks produce with no other connection
\* around, and no event of one connection changes another.
C16_ConnectionsIsolated ==
    /\ []Isolated
    /\ [][OneAtATime]_vars

C16_Witness ==
    /\ conns[1].rs
    /\ Len(conns[1].out) = 1
    /\ conns[1].wire # <<>>
    /\ Len(conns[2].out) = 1
    /\ WrittenEvent(conns[2].out[1]).ev.content = Str(C)
    /\ conns[2].wire # <<>>

----------------------------------------------------------------------------
(* The streaming reply of the Worker deployment *)

\* worker.js, if (stream): the upstream call has resolved and its body is the
\* body of the response returned
PipeInit ==
    /\ deployment = "worker"
    /\ showReasoning = TRUE
    /\ wire \in Wires
    /\ buffer = <<>>
    /\ reasoningStarted = FALSE
    /\ out = <<>>
    /\ ended = FALSE
    /\ recv = <<>>
    /\ log = <<>>
    /\ last = NoCall
    /\ RequestIdle
    /\ ReplyIdle
    /\ ServiceIdle
    /\ ConnsIdle

\* new Response(nimResp.body, ...): the runtime hands the next k bytes of the
\* upstream body to the client as they are; out holds the one body sent so far
Pipe(k) ==
    /\ ~ended
    /\ k \in 1..Len(wire)
    /\ out' = <<Flatten(out) \o SubSeq(wire, 1, k)>>
    /\ recv' = recv \o SubSeq(wire, 1, k)
    /\ wire' = SubSeq(wire, k + 1, Len(wire))
    /\ UNCHANGED <<showReasoning, deployment, buffer, reasoningStarted, ended, log, last>>
    /\ UNCHANGED <<requestVars, replyVars, serviceVars, connVars>>

\* The upstream body ends or fails: so does the body of the response
PipeEnd ==
    /\ ~ended
    /\ ended' = TRUE
    /\ wire' = <<>>
    /\ UNCHANGED <<showReasoning, deployment, buffer, reasoningStarted, out, recv, log, last>>
    /\ UNCHANGED <<requestVars, replyVars, serviceVars, connVars>>

PipeThrough == \E k \in 1..Len(wire) : Pipe(k)

PipeNext ==
    \/ PipeThrough
    \/ PipeEnd

SpecPipe == PipeInit /\ [][PipeNext]_vars

----------------------------------------------------------------------------
(* C17 *)

\* The events with a delta among the complete data lines of a text
RECURSIVE DeltaEvents(_)
DeltaEvents(ls) ==
    IF ls = <<>> THEN <<>>
    ELSE LET p == IF IsDataLine(Head(ls)) THEN JsonParse(Payload(Head(ls))) ELSE ParseFail
         IN  (IF p.ok /\ p.ev.delta THEN <<p.ev>> ELSE <<>>) \o DeltaEvents(Tail(ls))

\* The events the upstream has sent and the events the caller has received
UpstreamEvents == DeltaEvents(LinesOf(Utf8Decode(recv), <<>>))
CallerEvents == DeltaEvents(LinesOf(Utf8Decode(Flatten(out)), <<>>))

\* The merge of the specification run over a sequence of events
RECURSIVE Merged(_, _)
Merged(es, open) ==
    IF es = <<>> THEN <<>>
    ELSE LET want == RuleContent(open, Head(es).reasoning, Head(es).content)
         IN  <<IF want # <<>> THEN Delta(Str(want), Absent) ELSE Head(es)>>
             \o Merged(Tail(es), RuleState(open, Head(es).reasoning, Head(es).content))

\* C17: with show-reasoning enabled, in either deployment, every upstream
\* event whose delta yields non-empty combined content reaches the caller with
\* its content replaced by the combined content and without a reasoning field;
\* no event that reaches the caller carries reasoning_content text.
C17_NoReasoningFieldStreamed ==
    showReasoning =>
        /\ \A i \in 1..Len(CallerEvents) : ~Truthy(CallerEvents[i].reasoning)
        /\ Len(CallerEvents) = Len(UpstreamEvents)
        /\ CallerEvents = Merged(UpstreamEvents, FALSE)

----------------------------------------------------------------------------
(* C18 *)

\* C18: a complete data line is handled as the terminator only when its
\* payload is exactly [DONE]; every other data line with a parseable payload,
\* whatever text its fields hold, is parsed, written as the transformed event
\* and moves the reasoning state as the merge rules say.
C18_OnlyExactSentinelTerminates ==
    \A i \in 1..Len(log) :
        LET e == log[i]
            p == JsonParse(Payload(e.line))
        IN  /\ e.kind = "done" => e.line = Terminator
            /\ (IsDataLine(e.line) /\ e.line # Terminator /\ p.ok) =>
                  /\ e.kind = "event"
                  /\ e.ev = p.ev
                  /\ e.wrote = DataPrefix
                                 \o JsonStringify(TransformEvent(p.ev, e.rsBefore,
                                                                 showReasoning).ev)
                                 \o <<NL, NL>>
                  /\ e.rsAfter = TransformEvent(p.ev, e.rsBefore, showReasoning).rs

----------------------------------------------------------------------------
(* C19 *)

\* A text with its markers spelled out: "\n</think>\n\n" is a newline
\* followed by "</think>\n\n"
RECURSIVE Spell(_)
Spell(t) ==
    IF t = <<>> THEN <<>>
    ELSE (IF Head(t) = CloseBlock THEN <<NL, CloseMark>> ELSE <<Head(t)>>) \o Spell(Tail(t))

RECURSIVE ContentOf(_)
ContentOf(es) ==
    IF es = <<>> THEN <<>>
    ELSE (IF Truthy(Head(es).content) THEN Head(es).content.v ELSE <<>>) \o ContentOf(Tail(es))

RECURSIVE ReasoningOf(_)
ReasoningOf(es) ==
    IF es = <<>> THEN <<>>
    ELSE (IF Truthy(Head(es).reasoning) THEN Head(es).reasoning.v ELSE <<>>)
         \o ReasoningOf(Tail(es))

\* The concatenation of the content deltas written to the outbound stream
StreamedContent == ContentOf(CallerEvents)

\* R and C: the reasoning and content deltas of the upstream stream
R == ReasoningOf(UpstreamEvents)
C0 == ContentOf(UpstreamEvents)

\* No reasoning delta comes after a content delta of an earlier event
ReasoningFirst ==
    LET es == UpstreamEvents
    IN  \A i, j \in 1..Len(es) :
            (i < j /\ Truthy(es[i].content)) => ~Truthy(es[j].reasoning)

\* What the non-streaming transcoder returns for {reasoning_content: R, content: C}
NonStreamed == ServerChoiceContent(Choice(Str(C0), Str(R)), showReasoning)

\* C19: with show-reasoning enabled, for an upstream stream whose reasoning
\* deltas (R, non-empty) all precede its content deltas (C, non-empty), the
\* concatenated outbound content deltas equal the content the non-streaming
\* transcoder produces for {reasoning_content: R, content: C}.
C19_StreamedEqualsNonStreamed ==
    (showReasoning /\ ReasoningFirst /\ R # <<>> /\ C0 # <<>>) =>
        Spell(StreamedContent) = Spell(NonStreamed)

====
